---- MODULE Spec2Model ----
(***************************************************************************)
(* Model of the ESLint rule lib/rules/no-alias-imports.js.                 *)
(*                                                                         *)
(* One lint run: the host validates the rule options against meta.schema,  *)
(* calls create(context), and then calls the five node handlers on the     *)
(* constructs of the file in source order.  A JavaScript string is a       *)
(* sequence of one-character strings, so startsWith and the regex test     *)
(* are computed character by character.                                    *)
(***************************************************************************)
EXTENDS Integers, Sequences, FiniteSets, TLC

VARIABLES
    options,      \* context.options[0] as the user wrote it
    file,         \* the constructs of the linted file, in source order
    phase,        \* "config" | "configError" | "validated" | "linting" | "crashed"
    aliases,      \* create(): const aliases
    patterns,     \* create(): const patterns
    pos,          \* number of constructs whose handler has returned
    diagnostics   \* the context.report calls made so far, in call order

vars == <<options, file, phase, aliases, patterns, pos, diagnostics>>

\* Longest file (number of visited constructs) the model lints.
MaxNodes == 2

(***************************************************************************)
(* Strings                                                                 *)
(***************************************************************************)

\* String.prototype.startsWith
startsWith(s, prefix) ==
    /\ Len(prefix) <= Len(s)
    /\ SubSeq(s, 1, Len(prefix)) = prefix

\* s occurs in t at some offset
occursIn(s, t) ==
    \E i \in 0..(Len(t) - Len(s)) : SubSeq(t, i + 1, i + Len(s)) = s

\* a JavaScript string is truthy iff it is not empty
truthy(s) == s # <<>>

(***************************************************************************)
(* new RegExp(source) and regex.test(s), for the regex sources the model   *)
(* uses: literal characters, an optional leading "^", and "(" which (never *)
(* closed in these sources) makes the constructor throw a SyntaxError.     *)
(***************************************************************************)

RegExpCompiles(source) == \A i \in 1..Len(source) : source[i] # "("

RegExpTest(source, s) ==
    IF source # <<>> /\ Head(source) = "^"
    THEN startsWith(s, Tail(source))
    ELSE occursIn(source, s)

(***************************************************************************)
(* Option values.  A JSON value that can stand as an item of an options    *)
(* array is a record of one shape: a string, a number, or an object with   *)
(* the keys `keys`; a field that does not apply holds the empty string.    *)
(***************************************************************************)

Str(s) ==
    [type |-> "string", value |-> s, keys |-> {},
     alias |-> <<>>, aliasType |-> "none", pattern |-> <<>>]

Num ==
    [type |-> "number", value |-> <<>>, keys |-> {},
     alias |-> <<>>, aliasType |-> "none", pattern |-> <<>>]

\* { alias: a, pattern: p }
Obj(a, p) ==
    [type |-> "object", value |-> <<>>, keys |-> {"alias", "pattern"},
     alias |-> a, aliasType |-> "string", pattern |-> p]

\* { alias: a }
ObjAlias(a) ==
    [type |-> "object", value |-> <<>>, keys |-> {"alias"},
     alias |-> a, aliasType |-> "string", pattern |-> <<>>]

\* { pattern: p }
ObjPattern(p) ==
    [type |-> "object", value |-> <<>>, keys |-> {"pattern"},
     alias |-> <<>>, aliasType |-> "none", pattern |-> p]

\* { alias: a, flags: ... }
ObjExtraKey(a) ==
    [type |-> "object", value |-> <<>>, keys |-> {"alias", "flags"},
     alias |-> a, aliasType |-> "string", pattern |-> <<>>]

\* { alias: 1 }
ObjNumAlias ==
    [type |-> "object", value |-> <<>>, keys |-> {"alias"},
     alias |-> <<>>, aliasType |-> "number", pattern |-> <<>>]

\* The options object: the set of its top-level keys and the arrays under
\* the three documented ones (empty when the key is absent).  supplied is
\* FALSE when the rule is configured without an options object.
Opt(ks, al, pa, allow) ==
    [supplied |-> TRUE, keys |-> ks, aliases |-> al, patterns |-> pa,
     allowlist |-> allow]

NoOptions ==
    [supplied |-> FALSE, keys |-> {}, aliases |-> <<>>, patterns |-> <<>>,
     allowlist |-> <<>>]

(***************************************************************************)
(* meta.schema                                                             *)
(***************************************************************************)

\* uniqueItems: true
uniqueItems(arr) ==
    \A i, j \in 1..Len(arr) : i # j => arr[i] # arr[j]

\* { type: "string" }
schemaString(item) == item.type = "string"

\* Mutant of schemaAliasObject: `required: ["alias"]` is missing.
schemaAliasObjectNoRequired(item) ==
    /\ item.type = "object"
    /\ item.keys \subseteq {"alias", "pattern"}
    /\ "alias" \in item.keys => item.aliasType = "string"

\* { type: "object", properties: { alias, pattern }, additionalProperties:
\*   false, required: ["alias"] }
schemaAliasObject(item) ==
    /\ item.type = "object"
    /\ item.keys \subseteq {"alias", "pattern"}
    /\ "alias" \in item.keys
    /\ item.aliasType = "string"

\* oneOf: exactly one of the two item schemas accepts the item
schemaAliasItem(item) ==
    (schemaString(item) /\ ~schemaAliasObject(item))
        \/ (schemaAliasObject(item) /\ ~schemaString(item))

\* properties.aliases
schemaAliases(arr) ==
    /\ \A i \in 1..Len(arr) : schemaAliasItem(arr[i])
    /\ uniqueItems(arr)

\* properties.patterns
schemaPatterns(arr) ==
    /\ \A i \in 1..Len(arr) : schemaString(arr[i])
    /\ uniqueItems(arr)

\* The top-level keys meta.schema declares under `properties`.
schemaProperties == {"aliases", "patterns"}

\* The whole schema: an object, its declared properties valid,
\* additionalProperties: false.
schemaAccepts(o) ==
    /\ o.keys \subseteq schemaProperties
    /\ "aliases" \in o.keys => schemaAliases(o.aliases)
    /\ "patterns" \in o.keys => schemaPatterns(o.patterns)

(***************************************************************************)
(* create(context): the resolved configuration and the matcher             *)
(***************************************************************************)

\* const options = context.options[0] || {};
resolveOptions(o) == IF o.supplied THEN o ELSE Opt({}, <<>>, <<>>, <<>>)

\* Mutant of resolveAliases: the default list loses "~".
resolveAliasesOnlyAt(o) ==
    IF "aliases" \in resolveOptions(o).keys
    THEN resolveOptions(o).aliases
    ELSE <<Str(<<"@">>)>>

\* Mutant of resolveAliases: the defaults apply only when the options
\* object has no key at all.
resolveAliasesWhenNoKeys(o) ==
    IF resolveOptions(o).keys = {}
    THEN <<Str(<<"@">>), Str(<<"~">>)>>
    ELSE resolveOptions(o).aliases

\* const aliases = options.aliases || ["@", "~"];
resolveAliases(o) ==
    IF "aliases" \in resolveOptions(o).keys
    THEN resolveOptions(o).aliases
    ELSE <<Str(<<"@">>), Str(<<"~">>)>>

\* const patterns = options.patterns || [];
resolvePatterns(o) ==
    IF "patterns" \in resolveOptions(o).keys
    THEN resolveOptions(o).patterns
    ELSE <<>>

\* Mutant of patternLoop: the loop returns after its first pattern.
patternLoopFirstOnly(pats, i, modulePath) ==
    IF i > Len(pats) THEN "false"
    ELSE IF ~RegExpCompiles(pats[i].value) THEN "throw"
    ELSE IF RegExpTest(pats[i].value, modulePath) THEN "true"
    ELSE "false"

\* The second loop of isAliasImport, from patterns[i] on: "true", "false",
\* or "throw" when new RegExp(pattern) raises.
RECURSIVE patternLoop(_, _, _)
patternLoop(pats, i, modulePath) ==
    IF i > Len(pats) THEN "false"
    ELSE IF ~RegExpCompiles(pats[i].value) THEN "throw"
    ELSE IF RegExpTest(pats[i].value, modulePath) THEN "true"
    ELSE patternLoop(pats, i + 1, modulePath)

\* Mutant of objectAliasResult: an entry without a pattern flags nothing.
objectAliasResultPatternRequired(alias, modulePath) ==
    IF truthy(alias.pattern)
    THEN IF ~RegExpCompiles(alias.pattern) THEN "throw"
         ELSE IF RegExpTest(alias.pattern, modulePath) THEN "true"
         ELSE "false"
    ELSE "false"

\* What one object alias entry whose prefix matched returns.
objectAliasResult(alias, modulePath) ==
    IF truthy(alias.pattern)
    THEN IF ~RegExpCompiles(alias.pattern) THEN "throw"
         ELSE IF RegExpTest(alias.pattern, modulePath) THEN "true"
         ELSE "false"
    ELSE "true"

\* Mutant of aliasLoop: an object entry decides without the test that
\* the path starts with its alias.
RECURSIVE aliasLoopObjectUnguarded(_, _, _, _)
aliasLoopObjectUnguarded(als, pats, i, modulePath) ==
    IF i > Len(als) THEN patternLoop(pats, 1, modulePath)
    ELSE IF als[i].type = "string"
    THEN IF startsWith(modulePath, als[i].value) THEN "true"
         ELSE aliasLoopObjectUnguarded(als, pats, i + 1, modulePath)
    ELSE IF als[i].type = "object" /\ als[i].aliasType = "string"
            /\ truthy(als[i].alias)
    THEN objectAliasResult(als[i], modulePath)
    ELSE aliasLoopObjectUnguarded(als, pats, i + 1, modulePath)

\* Mutant of aliasLoop: a bare string entry decides alone, also when the
\* path does not start with it.
RECURSIVE aliasLoopStringDecides(_, _, _, _)
aliasLoopStringDecides(als, pats, i, modulePath) ==
    IF i > Len(als) THEN patternLoop(pats, 1, modulePath)
    ELSE IF als[i].type = "string"
    THEN IF startsWith(modulePath, als[i].value) THEN "true" ELSE "false"
    ELSE IF als[i].type = "object" /\ als[i].aliasType = "string"
            /\ truthy(als[i].alias)
    THEN IF startsWith(modulePath, als[i].alias)
         THEN objectAliasResult(als[i], modulePath)
         ELSE aliasLoopStringDecides(als, pats, i + 1, modulePath)
    ELSE aliasLoopStringDecides(als, pats, i + 1, modulePath)

\* The first loop of isAliasImport, from aliases[i] on; falls into the
\* second loop when no entry returned.
RECURSIVE aliasLoop(_, _, _, _)
aliasLoop(als, pats, i, modulePath) ==
    IF i > Len(als) THEN patternLoop(pats, 1, modulePath)
    ELSE IF als[i].type = "string"
    THEN IF startsWith(modulePath, als[i].value) THEN "true"
         ELSE aliasLoop(als, pats, i + 1, modulePath)
    ELSE IF als[i].type = "object" /\ als[i].aliasType = "string"
            /\ truthy(als[i].alias)
    THEN IF startsWith(modulePath, als[i].alias)
         THEN objectAliasResult(als[i], modulePath)
         ELSE aliasLoop(als, pats, i + 1, modulePath)
    ELSE aliasLoop(als, pats, i + 1, modulePath)

\* isAliasImport(modulePath) in a rule instance created with als and pats:
\* "true", "false", or "throw".
isAliasImportIn(als, pats, modulePath) == aliasLoop(als, pats, 1, modulePath)

\* isAliasImport(modulePath) of the running rule instance
isAliasImport(modulePath) == isAliasImportIn(aliases, patterns, modulePath)

(***************************************************************************)
(* Syntax tree nodes.  An expression is a record of one shape; NoExpr is   *)
(* the null of an absent source clause.                                    *)
(***************************************************************************)

StringLiteral(s) == [type |-> "Literal", valueType |-> "string", value |-> s]
NumberLiteral == [type |-> "Literal", valueType |-> "number", value |-> <<>>]
IdentifierExpr == [type |-> "Identifier", valueType |-> "none", value |-> <<>>]
TemplateExpr == [type |-> "TemplateLiteral", valueType |-> "none", value |-> <<>>]
CallExpr == [type |-> "CallExpression", valueType |-> "none", value |-> <<>>]
NoExpr == [type |-> "null", valueType |-> "none", value |-> <<>>]

NoCallee == [type |-> "none", name |-> "none"]

ImportDeclarationNode(src) ==
    [type |-> "ImportDeclaration", source |-> src, callee |-> NoCallee,
     arguments |-> <<>>]
ExportNamedDeclarationNode(src) ==
    [type |-> "ExportNamedDeclaration", source |-> src, callee |-> NoCallee,
     arguments |-> <<>>]
ExportAllDeclarationNode(src) ==
    [type |-> "ExportAllDeclaration", source |-> src, callee |-> NoCallee,
     arguments |-> <<>>]
ImportExpressionNode(src) ==
    [type |-> "ImportExpression", source |-> src, callee |-> NoCallee,
     arguments |-> <<>>]
CallExpressionNode(calleeType, calleeName, args) ==
    [type |-> "CallExpression", source |-> NoExpr,
     callee |-> [type |-> calleeType, name |-> calleeName],
     arguments |-> args]

(***************************************************************************)
(* Inputs: the module paths, the constructs, the files and the options     *)
(* objects of the runs the model explores.  The paths keep the shape of    *)
(* the ones the documentation and the tests use, with one-letter names:    *)
(* "@/c" for "@/config", "@c/B" for "@components/Button", and so on.       *)
(***************************************************************************)

Paths ==
    { <<>>,                              \* ""
      <<".", "/", "f">>,                 \* "./f"
      <<".", ".", "/", "b">>,            \* "../b"
      <<"f", "s">>,                      \* "fs"
      <<"s", "/", "f">>,                 \* "s/f"
      <<"@", "/", "f">>,                 \* "@/f"
      <<"~", "/", "b">>,                 \* "~/b"
      <<"@", "/", "c">>,                 \* "@/c"
      <<"@", "/", "c", "/", "a">>,       \* "@/c/a"
      <<"@", "/", "c", "X">>,            \* "@/cX"
      <<"@", "c", "/", "B">>,            \* "@c/B"
      <<"@", "c", "X">> }                \* "@cX"

\* Every construct with a string source or argument, over every path, and
\* the constructs without one.
Nodes ==
    { ImportDeclarationNode(StringLiteral(p)) : p \in Paths }
    \cup { ExportNamedDeclarationNode(StringLiteral(p)) : p \in Paths }
    \cup { ExportNamedDeclarationNode(NoExpr) }
    \cup { ExportAllDeclarationNode(StringLiteral(p)) : p \in Paths }
    \cup { ImportExpressionNode(StringLiteral(p)) : p \in Paths }
    \cup { ImportExpressionNode(e) :
             e \in {NumberLiteral, IdentifierExpr, TemplateExpr, CallExpr} }
    \cup { CallExpressionNode("Identifier", "require", <<StringLiteral(p)>>) :
             p \in Paths }
    \cup { CallExpressionNode("Identifier", "require", <<e>>) :
             e \in {NumberLiteral, IdentifierExpr, TemplateExpr, CallExpr} }
    \cup { CallExpressionNode("Identifier", "require", args) :
             args \in { <<>>,
                        <<StringLiteral(<<"@", "/", "f">>),
                          StringLiteral(<<"~", "/", "b">>)>>,
                        <<StringLiteral(<<"@", "/", "f">>), IdentifierExpr>> } }
    \cup { CallExpressionNode("MemberExpression", "require", <<StringLiteral(p)>>) :
             p \in { <<"@", "/", "f">>, <<".", "/", "f">> } }
    \cup { CallExpressionNode("Identifier", "load", <<StringLiteral(p)>>) :
             p \in { <<"@", "/", "f">>, <<".", "/", "f">> } }

\* The constructs of the files of more than one construct.
CoreNodes ==
    { ImportDeclarationNode(StringLiteral(<<"@", "/", "f">>)),
      ImportDeclarationNode(StringLiteral(<<".", "/", "f">>)),
      ExportNamedDeclarationNode(StringLiteral(<<"~", "/", "b">>)),
      ExportNamedDeclarationNode(NoExpr),
      ExportAllDeclarationNode(StringLiteral(<<"@", "/", "f">>)),
      ExportAllDeclarationNode(StringLiteral(<<>>)),
      CallExpressionNode("Identifier", "require", <<StringLiteral(<<"@", "/", "c">>)>>),
      CallExpressionNode("Identifier", "require", <<IdentifierExpr>>),
      ImportExpressionNode(StringLiteral(<<"~", "/", "b">>)),
      ImportExpressionNode(CallExpr) }

Files ==
    { <<>> }
    \cup { <<n>> : n \in Nodes }
    \cup UNION { [1..k -> CoreNodes] : k \in 2..MaxNodes }

AtC == <<"@", "c">>
CaretAtC == <<"^", "@", "c", "/">>
CaretS == <<"^", "s", "/">>

\* The options objects the schema accepts.
ValidOptions ==
    { NoOptions,
      Opt({}, <<>>, <<>>, <<>>),
      Opt({"aliases"}, <<Str(<<"@">>)>>, <<>>, <<>>),
      Opt({"aliases"}, <<Str(<<"~">>)>>, <<>>, <<>>),
      Opt({"aliases"}, <<Str(<<"@">>), Str(<<"~">>)>>, <<>>, <<>>),
      Opt({"aliases"}, <<Obj(AtC, CaretAtC), Str(<<"~">>)>>, <<>>, <<>>),
      Opt({"aliases"}, <<Str(<<"~">>), Obj(AtC, CaretAtC)>>, <<>>, <<>>),
      Opt({"aliases"}, <<Obj(AtC, CaretAtC), Str(<<"@">>)>>, <<>>, <<>>),
      Opt({"aliases"}, <<Str(<<"@">>), Obj(AtC, CaretAtC)>>, <<>>, <<>>),
      Opt({"aliases"},
          <<Str(<<"~">>), Obj(AtC, CaretAtC), ObjAlias(<<"s">>)>>, <<>>, <<>>),
      Opt({"aliases", "patterns"}, <<Obj(AtC, CaretAtC)>>, <<Str(<<"^", "@">>)>>, <<>>),
      Opt({"aliases", "patterns"}, <<>>, <<Str(CaretS)>>, <<>>),
      Opt({"aliases", "patterns"}, <<>>, <<Str(<<"c">>), Str(CaretS)>>, <<>>),
      Opt({"aliases"}, <<>>, <<>>, <<>>),
      Opt({"patterns"}, <<>>, <<Str(CaretS)>>, <<>>),
      Opt({"patterns"}, <<>>, <<Str(<<"^", "@", "/">>)>>, <<>>),
      Opt({"aliases"}, <<Str(<<>>)>>, <<>>, <<>>),
      Opt({"aliases"}, <<ObjAlias(<<>>)>>, <<>>, <<>>),
      Opt({"aliases"}, <<ObjAlias(<<"@">>)>>, <<>>, <<>>),
      Opt({"aliases"}, <<Obj(<<"@">>, <<>>)>>, <<>>, <<>>),
      Opt({"aliases"}, <<Obj(<<"@">>, <<"(">>)>>, <<>>, <<>>),
      Opt({"aliases"}, <<Obj(<<>>, <<"^", "@">>)>>, <<>>, <<>>),
      Opt({"aliases"}, <<Obj(<<>>, CaretAtC), Str(<<"~">>)>>, <<>>, <<>>),
      Opt({"patterns"}, <<>>, <<Str(<<"(">>)>>, <<>>),
      Opt({"aliases", "patterns"}, <<>>, <<Str(<<"(">>), Str(CaretS)>>, <<>>),
      Opt({"patterns"}, <<>>, <<Str(<<>>)>>, <<>>) }

\* The options objects that carry an allowlist, as README.md documents it.
AllowlistOptions ==
    { Opt({"aliases", "allowlist"}, <<Str(<<"@">>)>>, <<>>, <<Str(al)>>) :
        al \in { <<"@", "/", "c">>,
                 <<"@", "/", "c", "/", "*">>,
                 <<"@", "/", "f">> } }
    \cup { Opt({"aliases", "allowlist"}, <<Str(<<"~">>)>>, <<>>,
               <<Str(<<"~", "/", "b">>)>>),
           Opt({"allowlist"}, <<>>, <<>>, <<>>),
           Opt({"aliases", "patterns", "allowlist"}, <<>>, <<Str(CaretS)>>,
               <<Str(<<"s", "/", "f">>), Str(<<"@", "/", "c">>)>>) }

\* Options objects that break the documented shape.
MalformedOptions ==
    { Opt({"fix"}, <<>>, <<>>, <<>>),
      Opt({"aliases", "alias"}, <<Str(<<"@">>)>>, <<>>, <<>>),
      Opt({"aliases"}, <<ObjPattern(<<"^", "@">>)>>, <<>>, <<>>),
      Opt({"aliases"}, <<ObjExtraKey(<<"@">>)>>, <<>>, <<>>),
      Opt({"aliases"}, <<ObjNumAlias>>, <<>>, <<>>),
      Opt({"aliases"}, <<Num>>, <<>>, <<>>),
      Opt({"aliases"}, <<Str(<<"@">>), Str(<<"@">>)>>, <<>>, <<>>),
      Opt({"patterns"}, <<>>, <<Num>>, <<>>),
      Opt({"patterns"}, <<>>, <<Str(CaretS), Str(CaretS)>>, <<>>) }

OptionsObjects == ValidOptions \cup AllowlistOptions \cup MalformedOptions

(***************************************************************************)
(* The run                                                                 *)
(***************************************************************************)

Init ==
    /\ options \in OptionsObjects
    /\ file \in Files
    /\ phase = "config"
    /\ aliases = <<>>
    /\ patterns = <<>>
    /\ pos = 0
    /\ diagnostics = <<>>

\* The host checks the options against meta.schema before it creates the
\* rule; a violation is a configuration error and the file is not linted.
ValidateOptions ==
    /\ phase = "config"
    /\ phase' = IF schemaAccepts(options) THEN "validated" ELSE "configError"
    /\ UNCHANGED <<options, file, aliases, patterns, pos, diagnostics>>

\* create(context)
create ==
    /\ phase = "validated"
    /\ aliases' = resolveAliases(options)
    /\ patterns' = resolvePatterns(options)
    /\ phase' = "linting"
    /\ UNCHANGED <<options, file, pos, diagnostics>>

\* context.report(descriptor)
contextReport(diags, descriptor) == Append(diags, descriptor)

\* Mutant of reportAliasImport: the messageId argument is ignored.
reportAliasImportOneMessage(diags, node, modulePath, messageId) ==
    contextReport(diags, [node |-> node, messageId |-> "noAliasImport",
                          data |-> [alias |-> modulePath]])

\* Mutant of reportAliasImport: the data holds the first character of the
\* path (the alias prefix) instead of the path.
reportAliasImportPrefixOnly(diags, node, modulePath, messageId) ==
    contextReport(diags, [node |-> node, messageId |-> messageId,
                          data |-> [alias |-> SubSeq(modulePath, 1, 1)]])

\* reportAliasImport(node, modulePath, messageId); a node is named by its
\* position in the file.
reportAliasImport(diags, node, modulePath, messageId) ==
    contextReport(diags, [node |-> node, messageId |-> messageId,
                          data |-> [alias |-> modulePath]])

\* Mutant of checkPath: a path already reported in this file is not
\* reported again.
checkPathOncePerPath(modulePath, messageId) ==
    LET verdict == isAliasImport(modulePath)
        seen == \E k \in 1..Len(diagnostics) :
                    diagnostics[k].data.alias = modulePath
    IN
    /\ phase' = IF verdict = "throw" THEN "crashed" ELSE phase
    /\ pos' = IF verdict = "throw" THEN pos ELSE pos + 1
    /\ diagnostics' = IF verdict = "true" /\ ~seen
                      THEN reportAliasImport(diagnostics, pos + 1, modulePath,
                                             messageId)
                      ELSE diagnostics
    /\ UNCHANGED <<options, file, aliases, patterns>>

\* if (isAliasImport(modulePath)) reportAliasImport(node, modulePath, id);
\* and the handler returns, or the exception of new RegExp leaves it.
checkPath(modulePath, messageId) ==
    LET verdict == isAliasImport(modulePath) IN
    /\ phase' = IF verdict = "throw" THEN "crashed" ELSE phase
    /\ pos' = IF verdict = "throw" THEN pos ELSE pos + 1
    /\ diagnostics' = IF verdict = "true"
                      THEN reportAliasImport(diagnostics, pos + 1, modulePath,
                                             messageId)
                      ELSE diagnostics
    /\ UNCHANGED <<options, file, aliases, patterns>>

\* The handler returns without looking at a path.
skipNode ==
    /\ pos' = pos + 1
    /\ UNCHANGED <<options, file, phase, aliases, patterns, diagnostics>>

\* The traversal is at a construct of the given type.
visiting(type) ==
    /\ phase = "linting"
    /\ pos < Len(file)
    /\ file[pos + 1].type = type

ImportDeclaration ==
    /\ visiting("ImportDeclaration")
    /\ LET node == file[pos + 1] IN
       checkPath(node.source.value, "noAliasImport")

\* node.source && node.source.value
hasSourceValue(node) ==
    node.source # NoExpr /\ truthy(node.source.value)

ExportNamedDeclaration ==
    /\ visiting("ExportNamedDeclaration")
    /\ LET node == file[pos + 1] IN
       IF hasSourceValue(node)
       THEN checkPath(node.source.value, "noAliasExport")
       ELSE skipNode

ExportAllDeclaration ==
    /\ visiting("ExportAllDeclaration")
    /\ LET node == file[pos + 1] IN
       IF hasSourceValue(node)
       THEN checkPath(node.source.value, "noAliasExport")
       ELSE skipNode

\* Mutant of isStringLiteral: the typeof test is missing.
isStringLiteralAnyLiteral(expr) == expr.type = "Literal"

\* expr.type === "Literal" && typeof expr.value === "string"
isStringLiteral(expr) ==
    expr.type = "Literal" /\ expr.valueType = "string"

\* Mutant of isRequireCall: the number of arguments is not tested.
isRequireCallFirstArgument(node) ==
    /\ node.callee.type = "Identifier"
    /\ node.callee.name = "require"
    /\ Len(node.arguments) >= 1
    /\ isStringLiteral(node.arguments[1])

\* The condition of CallExpression: require(<string literal>)
isRequireCall(node) ==
    /\ node.callee.type = "Identifier"
    /\ node.callee.name = "require"
    /\ Len(node.arguments) = 1
    /\ isStringLiteral(node.arguments[1])

CallExpression ==
    /\ visiting("CallExpression")
    /\ LET node == file[pos + 1] IN
       IF isRequireCall(node)
       THEN checkPath(node.arguments[1].value, "noAliasRequire")
       ELSE skipNode

ImportExpression ==
    /\ visiting("ImportExpression")
    /\ LET node == file[pos + 1] IN
       IF node.source # NoExpr /\ isStringLiteral(node.source)
       THEN checkPath(node.source.value, "noAliasImport")
       ELSE skipNode

Next ==
    \/ ValidateOptions
    \/ create
    \/ ImportDeclaration
    \/ ExportNamedDeclaration
    \/ ExportAllDeclaration
    \/ CallExpression
    \/ ImportExpression

Spec == Init /\ [][Next]_vars

(***************************************************************************)
(* The specification's vocabulary (spec.md sections 4.1, 4.2 and 6), in    *)
(* which the properties below are stated.                                  *)
(***************************************************************************)

\* Section 6: the documented top-level keys.
DocumentedKeys == {"aliases", "patterns", "allowlist"}

\* Section 6: the documented shape of the options object.
DocumentedShape(o) ==
    /\ o.keys \subseteq DocumentedKeys
    /\ \A i \in 1..Len(o.aliases) :
         \/ o.aliases[i].type = "string"
         \/ /\ o.aliases[i].type = "object"
            /\ o.aliases[i].aliasType = "string"
            /\ "alias" \in o.aliases[i].keys
            /\ o.aliases[i].keys \subseteq {"alias", "pattern"}
    /\ uniqueItems(o.aliases)
    /\ \A i \in 1..Len(o.patterns) : o.patterns[i].type = "string"
    /\ uniqueItems(o.patterns)
    /\ \A i \in 1..Len(o.allowlist) : o.allowlist[i].type = "string"

\* Every regex of the configuration compiles.
RegexesCompile(o) ==
    /\ \A i \in 1..Len(o.aliases) : RegExpCompiles(o.aliases[i].pattern)
    /\ \A i \in 1..Len(o.patterns) : RegExpCompiles(o.patterns[i].value)

\* Section 4.1: one allowlist entry s matches the path.  PrefixAllow and
\* WildcardAllow (s ends in "/*", which is stripped).
EndsWithWildcard(s) ==
    Len(s) >= 2 /\ SubSeq(s, Len(s) - 1, Len(s)) = <<"/", "*">>

AllowBase(s) == IF EndsWithWildcard(s) THEN SubSeq(s, 1, Len(s) - 2) ELSE s

AllowEntryMatches(s, path) ==
    path = AllowBase(s) \/ startsWith(path, AllowBase(s) \o <<"/">>)

\* Section 4.1: isAllowed(path)
IsAllowed(o, path) ==
    \E i \in 1..Len(o.allowlist) : AllowEntryMatches(o.allowlist[i].value, path)

\* Section 4.1: shouldFlag(path) under the configuration o
ShouldFlag(o, path) ==
    /\ isAliasImportIn(resolveAliases(o), resolvePatterns(o), path) = "true"
    /\ ~IsAllowed(o, path)

\* Section 4.2, the extraction table: the construct carries a module path.
Carries(node) ==
    CASE node.type = "ImportDeclaration" -> TRUE
      [] node.type = "ExportNamedDeclaration" -> node.source # NoExpr
      [] node.type = "ExportAllDeclaration" -> node.source # NoExpr
      [] node.type = "CallExpression" ->
           /\ node.callee.type = "Identifier"
           /\ node.callee.name = "require"
           /\ Len(node.arguments) = 1
           /\ node.arguments[1].type = "Literal"
           /\ node.arguments[1].valueType = "string"
      [] node.type = "ImportExpression" ->
           node.source.type = "Literal" /\ node.source.valueType = "string"

PathOf(node) ==
    IF node.type = "CallExpression" THEN node.arguments[1].value
    ELSE node.source.value

\* Section 4.2, the extraction table: the message kind of a construct.
MessageKindOf(node) ==
    CASE node.type \in {"ImportDeclaration", "ImportExpression"} -> "noAliasImport"
      [] node.type = "CallExpression" -> "noAliasRequire"
      [] node.type \in {"ExportNamedDeclaration", "ExportAllDeclaration"} ->
           "noAliasExport"

\* The construct at position i of the file has a diagnostic.
Reported(i) ==
    \E k \in 1..Len(diagnostics) : diagnostics[k].node = i

\* The run has ended: rejected options, an exception, or every construct
\* visited.
RunOver ==
    \/ phase \in {"configError", "crashed"}
    \/ phase = "linting" /\ pos = Len(file)

(***************************************************************************)
(* Properties                                                              *)
(***************************************************************************)

\* C1: for every configuration of the documented shape and every construct
\* of the file that carries a module path, at the end of the run the
\* construct is reported if and only if isAliasImport(path) is true and
\* isAllowed(path) is false.  (Stated for configurations whose regexes
\* compile and for non-empty paths.)
C1_ReportedIffAliasAndNotAllowed ==
    (RunOver /\ DocumentedShape(options) /\ RegexesCompile(options)) =>
        \A i \in 1..Len(file) :
            (Carries(file[i]) /\ PathOf(file[i]) # <<>>) =>
                (Reported(i) <=> ShouldFlag(options, PathOf(file[i])))

\* C2: with no options supplied the run lints the whole file, and a
\* construct carrying a path is flagged exactly when the path starts with
\* "@" or "~"; a construct carrying no path is not flagged.
C2_DefaultFlagsAtAndTilde ==
    (RunOver /\ options.keys = {}) =>
        /\ phase = "linting"
        /\ \A i \in 1..Len(file) :
             Reported(i) <=>
                /\ Carries(file[i])
                /\ \/ startsWith(PathOf(file[i]), <<"@">>)
                   \/ startsWith(PathOf(file[i]), <<"~">>)

\* C2 witness: a file linted without options with one flagged and one
\* unflagged construct that both carry a path.
C2_Witness ==
    /\ ~options.supplied
    /\ phase = "linting" /\ pos = Len(file) /\ Len(file) = 2
    /\ Carries(file[1]) /\ Carries(file[2])
    /\ Reported(1) /\ ~Reported(2)

\* The options { aliases: ["@"], allowlist: [s] }
AtWithAllowlist(s) ==
    Opt({"aliases", "allowlist"}, <<Str(<<"@">>)>>, <<>>, <<Str(s)>>)

\* C3: with aliases ["@"] and the allowlist entry "@/c" (no trailing "/*"),
\* at the end of the run a construct carrying a non-empty path is flagged
\* exactly when the path starts with "@" and is neither "@/c" nor starts
\* with "@/c/": "@/c" and "@/c/a" are not flagged, "@/cX" is.
C3_PrefixAllowEntry ==
    (RunOver /\ options = AtWithAllowlist(<<"@", "/", "c">>)) =>
        \A i \in 1..Len(file) :
            (Carries(file[i]) /\ PathOf(file[i]) # <<>>) =>
                (Reported(i) <=>
                    /\ startsWith(PathOf(file[i]), <<"@">>)
                    /\ PathOf(file[i]) # <<"@", "/", "c">>
                    /\ ~startsWith(PathOf(file[i]), <<"@", "/", "c", "/">>))

\* C4: with aliases ["@"] and the allowlist entry "@/c/*", at the end of
\* the run a construct carrying a non-empty path is flagged exactly when the
\* path starts with "@" and is neither the base "@/c" nor starts with
\* "@/c/": "@/c/a" and "@/c" are not flagged, "@/cX" is.
C4_WildcardAllowEntry ==
    (RunOver /\ options = AtWithAllowlist(<<"@", "/", "c", "/", "*">>)) =>
        \A i \in 1..Len(file) :
            (Carries(file[i]) /\ PathOf(file[i]) # <<>>) =>
                (Reported(i) <=>
                    /\ startsWith(PathOf(file[i]), <<"@">>)
                    /\ ~AllowEntryMatches(<<"@", "/", "c", "/", "*">>,
                                          PathOf(file[i])))

\* C5: an options object of the documented shape, whose top-level keys are
\* among aliases, patterns and allowlist, passes configuration validation.
C5_DocumentedOptionsAccepted ==
    (phase # "config" /\ DocumentedShape(options)) => phase # "configError"

\* An object alias entry that lacks `alias` or carries a key other than
\* alias and pattern.
BadAliasObject(item) ==
    /\ item.type = "object"
    /\ "alias" \notin item.keys \/ ~(item.keys \subseteq {"alias", "pattern"})

\* C6: validation rejects every options object with a top-level key outside
\* the documented set, and every one with an object alias entry that lacks
\* `alias` or has a key other than alias/pattern; it accepts aliases made
\* of distinct object entries { alias: <string> } without a pattern.
C6_SchemaRejections ==
    phase # "config" =>
        /\ ~(options.keys \subseteq DocumentedKeys) => phase = "configError"
        /\ ("aliases" \in options.keys
              /\ \E i \in 1..Len(options.aliases) :
                    BadAliasObject(options.aliases[i]))
             => phase = "configError"
        /\ (options.keys = {"aliases"}
              /\ uniqueItems(options.aliases)
              /\ \A i \in 1..Len(options.aliases) :
                    /\ options.aliases[i].type = "object"
                    /\ options.aliases[i].keys = {"alias"}
                    /\ options.aliases[i].aliasType = "string")
             => phase # "configError"

\* C6 witness: an object alias entry without `alias` has been rejected and
\* nothing was linted.
C6_Witness ==
    /\ phase = "configError"
    /\ options.keys = {"aliases"}
    /\ \E i \in 1..Len(options.aliases) :
          /\ options.aliases[i].type = "object"
          /\ "alias" \notin options.aliases[i].keys
    /\ file # <<>> /\ diagnostics = <<>>

\* C7: every diagnostic has the message kind of the construct it is
\* anchored on: noAliasImport for a static or dynamic import, noAliasRequire
\* for a require call, noAliasExport for a named or star export.
C7_MessageKindByConstruct ==
    \A k \in 1..Len(diagnostics) :
        /\ diagnostics[k].node \in 1..Len(file)
        /\ diagnostics[k].messageId = MessageKindOf(file[diagnostics[k].node])
        /\ diagnostics[k].messageId \in
             {"noAliasImport", "noAliasRequire", "noAliasExport"}

\* C7 witness: one file whose diagnostics are a noAliasRequire followed by
\* a noAliasExport.
C7_Witness ==
    /\ Len(diagnostics) = 2
    /\ diagnostics[1].messageId = "noAliasRequire"
    /\ file[diagnostics[1].node].type = "CallExpression"
    /\ diagnostics[2].messageId = "noAliasExport"
    /\ file[diagnostics[2].node].type = "ExportAllDeclaration"

\* The positions, in source order, of the offending constructs among the
\* first n of the file: those that carry a path for which shouldFlag holds.
RECURSIVE OffendingUpTo(_)
OffendingUpTo(n) ==
    IF n = 0 THEN <<>>
    ELSE IF Carries(file[n]) /\ ShouldFlag(options, PathOf(file[n]))
         THEN Append(OffendingUpTo(n - 1), n)
         ELSE OffendingUpTo(n - 1)

\* The constructs the diagnostics are anchored on, in emission order.
ReportedNodes == [k \in 1..Len(diagnostics) |-> diagnostics[k].node]

\* C8: after any number of visited constructs the diagnostics are exactly
\* one per offending construct visited and none for another one, in the
\* order of the visits.
C8_OnePerOffendingInSourceOrder ==
    phase \in {"linting", "crashed"} => ReportedNodes = OffendingUpTo(pos)

\* A require call or a dynamic import whose argument is not a string
\* literal.
NonLiteralArgument(node) ==
    \/ /\ node.type = "CallExpression"
       /\ node.callee.type = "Identifier"
       /\ node.callee.name = "require"
       /\ Len(node.arguments) = 1
       /\ ~(node.arguments[1].type = "Literal"
              /\ node.arguments[1].valueType = "string")
    \/ /\ node.type = "ImportExpression"
       /\ ~(node.source.type = "Literal" /\ node.source.valueType = "string")

\* C9: under every configuration a require call or dynamic import whose
\* argument is not a string literal is never reported, and its handler
\* never raises.
C9_NonLiteralIgnored ==
    \A i \in 1..Len(file) :
        NonLiteralArgument(file[i]) =>
            /\ ~Reported(i)
            /\ ~(phase = "crashed" /\ pos + 1 = i)

\* C9 witness: a non-literal require or import has been visited under a
\* configuration whose empty alias prefix flags every string path, and the
\* run ended without a diagnostic.
C9_Witness ==
    /\ phase = "linting" /\ pos = Len(file) /\ pos >= 1
    /\ aliases = <<Str(<<>>)>>
    /\ NonLiteralArgument(file[pos])
    /\ diagnostics = <<>>

\* new RegExp(source).test(path): "true", "false", or "throw".
RegexOutcome(source, path) ==
    IF ~RegExpCompiles(source) THEN "throw"
    ELSE IF RegExpTest(source, path) THEN "true" ELSE "false"

\* The prefix string of an alias entry.
PrefixOf(item) == IF item.type = "string" THEN item.value ELSE item.alias

\* C10: in a created rule, for every object alias entry with a pattern and
\* every path that starts with the entry's alias string (and with no
\* earlier entry's prefix), isAliasImport(path) is exactly the result of
\* testing the path against the entry's regex.
C10_ObjectAliasResultIsRegexTest ==
    phase \in {"linting", "crashed"} =>
        \A p \in Paths : \A i \in 1..Len(aliases) :
            (/\ aliases[i].type = "object"
             /\ "pattern" \in aliases[i].keys
             /\ startsWith(p, aliases[i].alias)
             /\ \A j \in 1..(i - 1) : ~startsWith(p, PrefixOf(aliases[j])))
            => isAliasImport(p) = RegexOutcome(aliases[i].pattern, p)

C12_InvalidRegexFailsAtSetup ==
    /\ phase = "linting" => RegexesCompile(options)
    /\ phase # "crashed"

\* The verdict of the rule on one construct under the options o, from the
\* construct and o alone: the handler of its type extracts a path and
\* isAliasImport is true of it.
VerdictOf(o, node) ==
    /\ CASE node.type = "ImportDeclaration" -> TRUE
         [] node.type \in {"ExportNamedDeclaration", "ExportAllDeclaration"} ->
              hasSourceValue(node)
         [] node.type = "CallExpression" -> isRequireCall(node)
         [] node.type = "ImportExpression" ->
              node.source # NoExpr /\ isStringLiteral(node.source)
    /\ isAliasImportIn(resolveAliases(o), resolvePatterns(o), PathOf(node))
         = "true"

\* C13: in a running rule the resolved aliases and patterns are those
\* create() computed from the options, whatever has been visited; every
\* visited construct is reported exactly when its verdict, a function of
\* the construct and the options alone, is positive; so two visits of the
\* same construct in one file get the same verdict.
C13_VerdictDependsOnPathAndConfigOnly ==
    phase \in {"linting", "crashed"} =>
        /\ aliases = resolveAliases(options)
        /\ patterns = resolvePatterns(options)
        /\ \A i \in 1..pos : Reported(i) <=> VerdictOf(options, file[i])
        /\ \A i, j \in 1..pos :
              file[i] = file[j] => (Reported(i) <=> Reported(j))

\* C13 witness: the same alias import visited twice and reported twice.
C13_Witness ==
    /\ phase = "linting" /\ pos = 2
    /\ file[1] = file[2]
    /\ Reported(1) /\ Reported(2)

\* C14: a visited named or star export without a source clause is not
\* reported; one with a source clause, whatever the source string, is
\* reported exactly when a static import of the same path is reported under
\* the same configuration, that is when isAliasImport is true of the path.
C14_ExportReportedLikeImport ==
    phase \in {"linting", "crashed"} =>
        \A i \in 1..pos :
            file[i].type \in {"ExportNamedDeclaration", "ExportAllDeclaration"} =>
                IF file[i].source = NoExpr
                THEN ~Reported(i)
                ELSE Reported(i) <=>
                        VerdictOf(options,
                                  ImportDeclarationNode(file[i].source))

\* C15: a visited call expression is reported only if its callee is the
\* plain identifier `require` and it has exactly one argument; a member
\* call, a call of another identifier, or a call with zero or with two or
\* more arguments gets no diagnostic and its handler does not raise.
C15_OnlyPlainRequireWithOneArgument ==
    \A i \in 1..Len(file) :
        (/\ file[i].type = "CallExpression"
         /\ ~(/\ file[i].callee.type = "Identifier"
              /\ file[i].callee.name = "require"
              /\ Len(file[i].arguments) = 1))
        => /\ ~Reported(i)
           /\ ~(phase = "crashed" /\ pos + 1 = i)

\* C15 witness: require("@/f", "~/b") has been visited under the default
\* configuration and the run ended without a diagnostic.
C15_Witness ==
    /\ phase = "linting" /\ pos = 1 /\ Len(file) = 1
    /\ ~options.supplied
    /\ file[1].type = "CallExpression"
    /\ file[1].callee = [type |-> "Identifier", name |-> "require"]
    /\ Len(file[1].arguments) = 2
    /\ file[1].arguments[1] = StringLiteral(<<"@", "/", "f">>)
    /\ diagnostics = <<>>

\* C16: every diagnostic is anchored on a visited construct that carries a
\* module path, and its `alias` data is exactly that path.
C16_DiagnosticCarriesExactPath ==
    \A k \in 1..Len(diagnostics) :
        /\ diagnostics[k].node \in 1..pos
        /\ Carries(file[diagnostics[k].node])
        /\ diagnostics[k].data.alias = PathOf(file[diagnostics[k].node])

\* C16 witness: the second construct of a file is reported with its own
\* path, which differs from the path of the first.
C16_Witness ==
    /\ Len(diagnostics) = 2
    /\ diagnostics[2].node = 2
    /\ diagnostics[2].data.alias = <<"~", "/", "b">>
    /\ diagnostics[1].data.alias = <<"@", "/", "f">>

\* The positions of the alias entries whose prefix is a prefix of the path.
PrefixMatches(als, path) ==
    { i \in 1..Len(als) : startsWith(path, PrefixOf(als[i])) }

\* The first of a non-empty set of positions.
FirstOf(S) == CHOOSE i \in S : \A j \in S : i <= j

\* What the entry alone decides once its prefix matched: true for a bare
\* string or an entry without a pattern, the regex result otherwise.
EntryDecision(item, path) ==
    IF item.type = "string" \/ ~("pattern" \in item.keys) THEN "true"
    ELSE RegexOutcome(item.pattern, path)

\* C17: in a created rule, for every path of which two or more alias
\* entries' prefixes are prefixes, isAliasImport(path) is what the first
\* such entry in configured order decides.
C17_FirstMatchingEntryDecides ==
    phase \in {"linting", "crashed"} =>
        \A p \in Paths :
            Cardinality(PrefixMatches(aliases, p)) >= 2 =>
                isAliasImport(p)
                    = EntryDecision(aliases[FirstOf(PrefixMatches(aliases, p))], p)

\* C19: in a created rule, an alias entry whose prefix is the empty string
\* and that carries no pattern, bare string or object, makes
\* isAliasImport true for every path on which the loop reaches it (no
\* earlier entry's prefix is a prefix of the path).
C19_EmptyPrefixMatchesEveryPath ==
    phase \in {"linting", "crashed"} =>
        \A i \in 1..Len(aliases) :
            (PrefixOf(aliases[i]) = <<>> /\ EntryDecision(aliases[i], <<>>) = "true")
            => \A p \in Paths :
                   (\A j \in 1..(i - 1) : ~startsWith(p, PrefixOf(aliases[j])))
                   => isAliasImport(p) = "true"

\* The rearrangements of a sequence.
Rearrangements(s) ==
    { [i \in 1..Len(s) |-> s[f[i]]] :
        f \in { g \in [1..Len(s) -> 1..Len(s)] :
                  \A i, j \in 1..Len(s) : g[i] = g[j] => i = j } }

\* No entry's prefix is a prefix of another entry's prefix.
PairwiseDisjoint(als) ==
    \A i, j \in 1..Len(als) :
        i # j => ~startsWith(PrefixOf(als[j]), PrefixOf(als[i]))

\* C18: in a created rule whose alias prefixes are pairwise disjoint,
\* isAliasImport gives, for every path, the same result under every
\* permutation of the aliases sequence.
C18_OrderIrrelevantForDisjointPrefixes ==
    (phase \in {"linting", "crashed"} /\ PairwiseDisjoint(aliases)) =>
        \A perm \in Rearrangements(aliases) :
            \A p \in Paths :
                isAliasImportIn(perm, patterns, p) = isAliasImport(p)

\* C18 witness: under three disjoint prefixes, of which the last is the
\* one the path starts with, the construct has been reported.
C18_Witness ==
    /\ phase = "linting" /\ pos = 1
    /\ Len(aliases) = 3 /\ PairwiseDisjoint(aliases)
    /\ Carries(file[1]) /\ PathOf(file[1]) = <<"s", "/", "f">>
    /\ startsWith(PathOf(file[1]), PrefixOf(aliases[3]))
    /\ Reported(1)

\* C20: the defaults are applied per key.  In a created rule the aliases
\* in force are the supplied array when options has the key `aliases`
\* (the empty array included) and ["@", "~"] otherwise; so under options
\* that omit `aliases`, whatever else they supply, every visited construct
\* whose path starts with "@" is reported.
C20_DefaultAliasesPerKey ==
    phase \in {"linting", "crashed"} =>
        /\ aliases = IF "aliases" \in options.keys
                     THEN options.aliases
                     ELSE <<Str(<<"@">>), Str(<<"~">>)>>
        /\ "aliases" \notin options.keys =>
               \A i \in 1..pos :
                   (Carries(file[i]) /\ startsWith(PathOf(file[i]), <<"@">>))
                   => Reported(i)

\* C20 witness: under options that supply patterns only, an import of
\* "@/f" has been reported.
C20_Witness ==
    /\ phase = "linting" /\ pos = 1
    /\ options.keys = {"patterns"} /\ options.patterns # <<>>
    /\ Carries(file[1]) /\ PathOf(file[1]) = <<"@", "/", "f">>
    /\ Reported(1)

\* The sequence with the entry at position i replaced by item.
ReplaceAt(s, i, item) == [s EXCEPT ![i] = item]

\* An object entry without a pattern, or with the empty string as pattern.
PatternLess(item) == item.type = "object" /\ item.pattern = <<>>

\* C21: in a created rule, for every path, isAliasImport is unchanged when
\* a bare string alias p, p not empty, is replaced at its position by
\* {alias: p} or by {alias: p, pattern: ""}, and when such an object entry
\* is replaced by the bare string p.
C21_BareStringEqualsPatternlessObject ==
    phase \in {"linting", "crashed"} =>
        \A i \in 1..Len(aliases) : \A p \in Paths :
            /\ (aliases[i].type = "string" /\ aliases[i].value # <<>>) =>
                 \A item \in { ObjAlias(aliases[i].value),
                               Obj(aliases[i].value, <<>>) } :
                     isAliasImportIn(ReplaceAt(aliases, i, item), patterns, p)
                         = isAliasImport(p)
            /\ (PatternLess(aliases[i]) /\ aliases[i].alias # <<>>) =>
                 isAliasImportIn(ReplaceAt(aliases, i, Str(aliases[i].alias)),
                                 patterns, p)
                     = isAliasImport(p)

\* C21 witness: under the single alias {alias: "@"} an import of "@/f" has
\* been reported, as it is under the single alias "@".
C21_Witness ==
    /\ phase = "linting" /\ pos = 1
    /\ aliases = <<ObjAlias(<<"@">>)>>
    /\ Carries(file[1]) /\ PathOf(file[1]) = <<"@", "/", "f">>
    /\ Reported(1)
    /\ isAliasImportIn(<<Str(<<"@">>)>>, patterns, PathOf(file[1])) = "true"

\* The sequence with item inserted so that it stands at position i.
InsertAt(s, i, item) == SubSeq(s, 1, i - 1) \o <<item>> \o SubSeq(s, i, Len(s))

\* The bare strings and the regex sources tried as added entries.
AddedPrefixes == { <<>>, <<"@">>, <<"~">>, AtC, <<"s">> }
AddedPatterns == { <<>>, <<"c">>, CaretS, <<"^", "@">>, <<"(">> }

\* C22: in a rule that create has just returned (its aliases and patterns
\* never change afterwards), for every path for which isAliasImport is true,
\* it is not false after a bare string alias (or an object alias without
\* a pattern) is inserted at any position of aliases, nor after an entry
\* is inserted at any position of patterns
\* (it stays true unless the added regex source does not compile, which
\* raises); while inserting an object alias with a pattern in front of
\* aliases ["@"] turns "@cX" from true to false.
C22_MonotoneInStringsAndPatterns ==
    (phase = "linting" /\ pos = 0) =>
        /\ \A p \in Paths :
             isAliasImport(p) = "true" =>
                /\ \A i \in 1..(Len(aliases) + 1) : \A a \in AddedPrefixes :
                     \A item \in { Str(a), ObjAlias(a) } :
                         isAliasImportIn(InsertAt(aliases, i, item), patterns, p)
                             = "true"
                /\ \A k \in 1..(Len(patterns) + 1) : \A r \in AddedPatterns :
                     /\ isAliasImportIn(aliases, InsertAt(patterns, k, Str(r)), p)
                            # "false"
                     /\ RegExpCompiles(r) =>
                            isAliasImportIn(aliases,
                                            InsertAt(patterns, k, Str(r)), p)
                                = "true"
        /\ aliases = <<Str(<<"@">>)>> =>
             /\ isAliasImport(<<"@", "c", "X">>) = "true"
             /\ isAliasImportIn(InsertAt(aliases, 1, Obj(AtC, CaretAtC)),
                                patterns, <<"@", "c", "X">>) = "false"

\* C22 witness: the aliases in force are ["~", {alias: "@c", pattern:
\* "^@c/"}], that is "~" inserted in front of the object entry, and an
\* import of "@c/B", flagged by the object entry alone, has been reported.
C22_Witness ==
    /\ phase = "linting" /\ pos = 1
    /\ aliases = InsertAt(<<Obj(AtC, CaretAtC)>>, 1, Str(<<"~">>))
    /\ Carries(file[1]) /\ PathOf(file[1]) = <<"@", "c", "/", "B">>
    /\ isAliasImportIn(<<Obj(AtC, CaretAtC)>>, patterns, PathOf(file[1])) = "true"
    /\ Reported(1)

====
